---- MODULE Spec2Model ----
(***************************************************************************)
(* Model of src/app.py: the Flask invoice splitter.                        *)
(*                                                                         *)
(* Strings are sequences of one-character strings.  A page of a PDF is     *)
(* abstracted to what the two regular expressions capture on its text.     *)
(* The upload folder and the output folder are functions from file names   *)
(* to contents.  Every request (an upload or a download) is a process      *)
(* with a program counter; the steps are cut at the accesses to the two    *)
(* folders, which are the only state requests share.                       *)
(***************************************************************************)
EXTENDS Integers, Sequences, FiniteSets, TLC

\* ------------------------------------------------------------------ bounds

\* Longest document (in pages) of a directly uploaded PDF.
MaxPages == 3
\* Most members of an uploaded ZIP archive.
MaxMembers == 3
\* Longest document (in pages) uploaded by concurrently running requests.
MaxConcPages == 1

\* ----------------------------------------------------------------- strings

Str_pdf == <<"p", "d", "f">>
Str_zip == <<"z", "i", "p">>
Str_dot_pdf == <<".">> \o Str_pdf
Str_dot_zip == <<".">> \o Str_zip

\* The letters of the model's alphabet: <<lower case, upper case>>.
CaseTable ==
    { <<"a", "A">>, <<"b", "B">>, <<"d", "D">>, <<"f", "F">>, <<"g", "G">>,
      <<"h", "H">>, <<"i", "I">>, <<"n", "N">>, <<"p", "P">>, <<"t", "T">>,
      <<"x", "X">>, <<"z", "Z">> }

UpperChar(c) ==
    IF \E e \in CaseTable : e[1] = c
    THEN (CHOOSE e \in CaseTable : e[1] = c)[2]
    ELSE c

LowerChar(c) ==
    IF \E e \in CaseTable : e[2] = c
    THEN (CHOOSE e \in CaseTable : e[2] = c)[1]
    ELSE c

\* str.upper() and str.lower()
upper(s) == [i \in 1..Len(s) |-> UpperChar(s[i])]
lower(s) == [i \in 1..Len(s) |-> LowerChar(s[i])]

Whitespace == {" "}

\* str.strip(chars): drop the characters of cs from both ends.
RECURSIVE LStrip(_, _)
LStrip(s, cs) ==
    IF s # <<>> /\ Head(s) \in cs THEN LStrip(Tail(s), cs) ELSE s

RECURSIVE RStrip(_, _)
RStrip(s, cs) ==
    IF s # <<>> /\ s[Len(s)] \in cs
    THEN RStrip(SubSeq(s, 1, Len(s) - 1), cs)
    ELSE s

strip(s, cs) == RStrip(LStrip(s, cs), cs)

\* str.endswith(suffix)
endswith(s, suffix) ==
    /\ Len(s) >= Len(suffix)
    /\ SubSeq(s, Len(s) - Len(suffix) + 1, Len(s)) = suffix

\* filename.rsplit('.', 1)[1]: the text after the last dot.
AfterLastDot(s) ==
    LET dots == {i \in 1..Len(s) : s[i] = "."}
        last == CHOOSE i \in dots : \A j \in dots : j <= i
    IN  SubSeq(s, last + 1, Len(s))

\* "_".join(s.split()) on a string without leading or trailing whitespace:
\* every run of whitespace becomes one underscore.
RECURSIVE JoinRuns(_)
JoinRuns(s) ==
    IF s = <<>> THEN <<>>
    ELSE IF Head(s) \in Whitespace
         THEN IF Len(s) > 1 /\ s[2] \in Whitespace
              THEN JoinRuns(Tail(s))
              ELSE <<"_">> \o JoinRuns(Tail(s))
         ELSE <<Head(s)>> \o JoinRuns(Tail(s))

\* The characters werkzeug keeps: [A-Za-z0-9_.-] (of the model's alphabet).
SafeChars ==
    {e[1] : e \in CaseTable} \cup {e[2] : e \in CaseTable}
        \cup {"0", "1", "_", ".", "-"}

IsSafeChar(c) == c \in SafeChars

\* werkzeug.utils.secure_filename on a POSIX host: path separators become
\* spaces, whitespace runs become "_", unsafe characters are removed, and
\* dots and underscores are stripped from both ends.
secure_filename(s) ==
    LET seps   == [i \in 1..Len(s) |-> IF s[i] = "/" THEN " " ELSE s[i]]
        joined == JoinRuns(strip(seps, Whitespace))
        kept   == SelectSeq(joined, IsSafeChar)
    IN  strip(kept, {".", "_"})

\* ALLOWED_EXTENSIONS
ALLOWED_EXTENSIONS == {Str_pdf, Str_zip}

AllowedFileStrict(filename) ==
    /\ \E i \in 1..Len(filename) : filename[i] = "."
    /\ AfterLastDot(filename) \in ALLOWED_EXTENSIONS

allowed_file(filename) ==
    /\ \E i \in 1..Len(filename) : filename[i] = "."
    /\ lower(AfterLastDot(filename)) \in ALLOWED_EXTENSIONS

\* f"{invoice_data[0]}_{invoice_data[1]}.pdf"
InvoiceName(data) == data[1] \o <<"_">> \o data[2] \o Str_dot_pdf

OutputName(data) == secure_filename(InvoiceName(data))

\* not gstin_filter or gstin_filter.upper() == current_gstin.upper()
FilterExact(gstin_filter, current_gstin) ==
    gstin_filter = <<>> \/ gstin_filter = current_gstin

FilterPasses(gstin_filter, current_gstin) ==
    gstin_filter = <<>> \/ upper(gstin_filter) = upper(current_gstin)

\* ------------------------------------------------------------------- pages

\* What the two patterns capture on a page's text; <<>> when the pattern
\* does not match (a capture, \S+, is never empty).
PageText(id, gst) == [id |-> id, gst |-> gst]

NoMatch == <<>>
Id_A == <<"A">>
Id_AStar == <<"A", "*">>
Gst_g == <<"g">>
Gst_G == <<"G">>
Gst_h == <<"h">>

Plain == PageText(NoMatch, NoMatch)
OnlyId == PageText(Id_A, NoMatch)
OnlyGst == PageText(NoMatch, Gst_g)
Marker_Ag == PageText(Id_A, Gst_g)
Marker_AG == PageText(Id_A, Gst_G)
Marker_AStarg == PageText(Id_AStar, Gst_g)
Marker_Ah == PageText(Id_A, Gst_h)

PageTexts ==
    {Plain, OnlyId, OnlyGst, Marker_Ag, Marker_AG, Marker_AStarg, Marker_Ah}

IsMarkerEither(text) == text.id # NoMatch \/ text.gst # NoMatch

\* if doc_match and gst_match
IsMarker(text) == text.id # NoMatch /\ text.gst # NoMatch

SeqsUpTo(S, n) == UNION {[1..k -> S] : k \in 0..n}

\* ------------------------------------------------------------------- files

PdfBody(pages) == [type |-> "pdf", pages |-> pages, members |-> <<>>]
ZipBody(members) == [type |-> "zip", pages |-> <<>>, members |-> members]
BadBody == [type |-> "bad", pages |-> <<>>, members |-> <<>>]

Member(name, body) == [name |-> name, body |-> body]

\* A file of the upload folder: what was uploaded or extracted, and by which
\* request and ZIP member (0: the upload itself).
Stored(body, r, m) == [body |-> body, origin |-> <<r, m>>]

\* A page of an output PDF: a copy of page `page` (0-based) of a document.
PageRef(origin, page) == [src |-> origin, page |-> page]

\* An output file: its pages, or a file a failed save left incomplete.
Written(origin, pages) ==
    [ok |-> TRUE, pages |-> [i \in 1..Len(pages) |-> PageRef(origin, pages[i])]]
Truncated == [ok |-> FALSE, pages |-> <<>>]

\* A folder is a function from the names of its files to their contents.
EmptyFolder == [n \in {} |-> Truncated]
Put(folder, name, content) ==
    [n \in DOMAIN folder \cup {name} |-> IF n = name THEN content ELSE folder[n]]
Remove(folder, name) == [n \in DOMAIN folder \ {name} |-> folder[n]]

\* ---------------------------------------------------------------- requests

Name_a_pdf == <<"a">> \o Str_dot_pdf
Name_a_PDF == <<"a", ".", "P", "D", "F">>
Name_b_zip == <<"b">> \o Str_dot_zip
Name_b_Zip == <<"b", ".", "Z", "i", "p">>
Name_dot_zip == Str_dot_zip
Name_a_txt == <<"a", ".", "t", "x", "t">>
Name_a == <<"a">>
Name_pdf_txt == <<"a">> \o Str_dot_pdf \o <<".", "t", "x", "t">>

UploadInput(hasFile, filename, gstin, body) ==
    [kind |-> "upload", hasFile |-> hasFile, filename |-> filename,
     gstin |-> gstin, body |-> body]

DownloadInput(filename) ==
    [kind |-> "download", hasFile |-> FALSE, filename |-> filename,
     gstin |-> <<>>, body |-> BadBody]

\* The GSTIN form field of an upload.
Filters == {<<>>, <<" ">>, <<"g">>, <<" ", "G">>, <<"x">>}

Members ==
    { Member(<<"x">> \o Str_dot_pdf, PdfBody(<<Marker_Ag, Plain>>)),
      Member(<<"d", "/", "x", ".", "P", "D", "F">>, PdfBody(<<Marker_AStarg>>)),
      Member(<<"n", ".", "t", "x", "t">>, BadBody),
      Member(<<"b">> \o Str_dot_pdf, BadBody) }

\* Archives: members in any order, no member twice.
Archives ==
    {ms \in SeqsUpTo(Members, MaxMembers) :
        \A i, j \in 1..Len(ms) : i # j => ms[i] # ms[j]}

Doc_Ag == <<Marker_Ag>>

\* Uploads that fail the validation of upload_pdf.
InvalidUploads ==
    { UploadInput(FALSE, <<>>, <<>>, BadBody),
      UploadInput(TRUE, <<>>, <<>>, PdfBody(Doc_Ag)),
      UploadInput(TRUE, Name_a_txt, <<>>, PdfBody(Doc_Ag)),
      UploadInput(TRUE, Name_a, <<>>, PdfBody(Doc_Ag)),
      UploadInput(TRUE, Name_pdf_txt, <<>>, PdfBody(Doc_Ag)) }

\* Uploads whose name and content are at odds, or in an unusual letter case.
OddUploads ==
    { UploadInput(TRUE, Name_a_PDF, <<"g">>, PdfBody(<<Marker_AG, Marker_Ah>>)),
      UploadInput(TRUE, Name_a_pdf, <<>>, BadBody),
      UploadInput(TRUE, Name_a_pdf, <<>>, ZipBody(<<>>)),
      UploadInput(TRUE, Name_b_zip, <<>>, PdfBody(Doc_Ag)),
      UploadInput(TRUE, Name_dot_zip, <<>>, PdfBody(Doc_Ag)) }

PdfUploads(n) ==
    {UploadInput(TRUE, Name_a_pdf, g, PdfBody(d)) :
        g \in Filters, d \in SeqsUpTo(PageTexts, n)}

ZipUploads ==
    {UploadInput(TRUE, Name_b_zip, g, ZipBody(ms)) :
        g \in {<<>>, <<"x">>}, ms \in Archives}
    \cup {UploadInput(TRUE, Name_b_Zip, <<>>, ZipBody(<<>>))}

Name_Ag_pdf == <<"A", "_", "g">> \o Str_dot_pdf
Name_Ah_pdf == <<"A", "_", "h">> \o Str_dot_pdf

Downloads == {DownloadInput(Name_Ag_pdf), DownloadInput(Name_Ah_pdf)}

\* A request served alone.
Inputs ==
    PdfUploads(MaxPages) \cup ZipUploads \cup InvalidUploads \cup OddUploads
        \cup Downloads

\* The pages concurrent requests upload: two markers whose output names
\* coincide after sanitising, and a page that matches nothing.
ConcPageTexts == {Marker_Ag, Marker_AStarg, Plain}

ConcInputs ==
    {UploadInput(TRUE, n, <<>>, PdfBody(d)) :
        n \in {Name_a_pdf}, d \in SeqsUpTo(ConcPageTexts, MaxConcPages) \ {<<>>}}
    \cup {UploadInput(TRUE, Name_b_zip, <<>>,
                      ZipBody(<<Member(Name_a_pdf, PdfBody(Doc_Ag))>>))}
    \cup {UploadInput(FALSE, <<>>, <<>>, BadBody),
          UploadInput(TRUE, <<>>, <<>>, BadBody),
          UploadInput(TRUE, Name_a_txt, <<>>, BadBody),
          UploadInput(TRUE, Name_b_zip, <<>>, BadBody)}
    \cup {DownloadInput(Name_Ag_pdf)}

\* The output folder a request may find: empty, or holding an invoice an
\* earlier request (number 0) wrote.
EarlierOutput == Put(EmptyFolder, Name_Ag_pdf, Written(<<0, 0>>, <<0>>))

\* ------------------------------------------------------------------- state

VARIABLES
    req,        \* each request's input
    pc,         \* each request's position in its handler
    uploads,    \* UPLOAD_FOLDER
    outputs,    \* OUTPUT_FOLDER
    up,         \* the locals of upload_pdf
    sp,         \* the locals of the running split_invoices call
    saves,      \* the new_pdf.save calls of the running split_invoices call
    response,   \* each request's HTTP response
    before      \* history: the output folder as each request found it

vars == <<req, pc, uploads, outputs, up, sp, saves, response, before>>

Requests == DOMAIN pc

NoResponse == [status |-> 0, error |-> "", files |-> <<>>, body |-> Truncated]
ErrorResponse(status, error) ==
    [status |-> status, error |-> error, files |-> <<>>, body |-> Truncated]
FilesResponse(files) ==
    [status |-> 200, error |-> "", files |-> files, body |-> Truncated]
FileResponse(content) ==
    [status |-> 200, error |-> "", files |-> <<>>, body |-> content]

Msg_NoFilePart == "No file part"
Msg_NoSelectedFile == "No selected file"
Msg_InvalidType == "Invalid file type. Only PDF and ZIP files are allowed."
Msg_Processing == "An error occurred while processing the file"
Msg_NotFound == "File not found"

UpInit ==
    [gstin_filter |-> <<>>, filename |-> <<>>, zip |-> FALSE, members |-> <<>>,
     pdf_files |-> <<>>, idx |-> 1, extracted_path |-> <<>>, split_files |-> <<>>]

SpInit ==
    [input_pdf |-> <<>>, gstin_filter |-> <<>>, doc |-> <<>>, origin |-> <<0, 0>>,
     doc_open |-> FALSE, opened |-> FALSE, page_num |-> 0, invoice_pages |-> <<>>,
     invoice_data |-> <<>>, split_files |-> <<>>, exc |-> FALSE]

InitWith(rs, inputs, folders) ==
    /\ req \in [rs -> inputs]
    /\ pc = [r \in rs |-> IF req[r].kind = "download" THEN "download" ELSE "upload"]
    /\ uploads = EmptyFolder
    /\ outputs \in folders
    /\ up = [r \in rs |-> UpInit]
    /\ sp = [r \in rs |-> SpInit]
    /\ saves = [r \in rs |-> <<>>]
    /\ response = [r \in rs |-> NoResponse]
    /\ before = [r \in rs |-> outputs]

\* One request, served alone.
Init == InitWith({1}, Inputs, {EmptyFolder, EarlierOutput})

\* Two requests, served by two threads of the development server.
InitConc == InitWith({1, 2}, ConcInputs, {EmptyFolder})

Respond(r, resp) ==
    /\ response' = [response EXCEPT ![r] = resp]
    /\ pc' = [pc EXCEPT ![r] = "done"]

\* ------------------------------------------------------------- upload_pdf

\* if "file" not in request.files
UploadNoFilePart(r) ==
    /\ pc[r] = "upload"
    /\ before' = [before EXCEPT ![r] = outputs]
    /\ ~req[r].hasFile
    /\ Respond(r, ErrorResponse(400, Msg_NoFilePart))
    /\ UNCHANGED <<req, uploads, outputs, up, sp, saves>>

\* if file.filename == ""
UploadNoSelectedFile(r) ==
    /\ pc[r] = "upload"
    /\ before' = [before EXCEPT ![r] = outputs]
    /\ req[r].hasFile
    /\ req[r].filename = <<>>
    /\ Respond(r, ErrorResponse(400, Msg_NoSelectedFile))
    /\ UNCHANGED <<req, uploads, outputs, up, sp, saves>>

\* if not allowed_file(file.filename)
UploadInvalidType(r) ==
    /\ pc[r] = "upload"
    /\ before' = [before EXCEPT ![r] = outputs]
    /\ req[r].hasFile
    /\ req[r].filename # <<>>
    /\ ~allowed_file(req[r].filename)
    /\ Respond(r, ErrorResponse(400, Msg_InvalidType))
    /\ UNCHANGED <<req, uploads, outputs, up, sp, saves>>

\* file.save(file_path), and the choice between the ZIP and the PDF branch.
UploadSave(r) ==
    /\ pc[r] = "upload"
    /\ before' = [before EXCEPT ![r] = outputs]
    /\ req[r].hasFile
    /\ req[r].filename # <<>>
    /\ allowed_file(req[r].filename)
    /\ LET filename == secure_filename(req[r].filename)
           isZip    == endswith(lower(filename), Str_dot_zip)
       IN  /\ uploads' = Put(uploads, filename, Stored(req[r].body, r, 0))
           /\ up' = [up EXCEPT ![r] =
                        [UpInit EXCEPT !.gstin_filter = strip(req[r].gstin, Whitespace),
                                       !.filename = filename,
                                       !.zip = isZip]]
           /\ sp' = [sp EXCEPT ![r] =
                        [SpInit EXCEPT !.input_pdf = filename,
                                       !.gstin_filter = strip(req[r].gstin, Whitespace)]]
           /\ pc' = [pc EXCEPT ![r] = IF isZip THEN "zip_open" ELSE "split_open"]
    /\ UNCHANGED <<req, outputs, saves, response>>

IsZipFile(folder, name) == name \in DOMAIN folder /\ folder[name].body.type = "zip"

\* [f for f in zip_ref.namelist() if f.lower().endswith('.pdf')], as the
\* positions of those members in the archive.
PdfMembers(members) ==
    LET idxs == [i \in 1..Len(members) |-> i]
        isPdf(i) == endswith(lower(members[i].name), Str_dot_pdf)
    IN  SelectSeq(idxs, isPdf)

\* with zipfile.ZipFile(file_path, 'r') as zip_ref
ZipOpen(r) ==
    /\ pc[r] = "zip_open"
    /\ IsZipFile(uploads, up[r].filename)
    /\ LET members == uploads[up[r].filename].body.members
       IN  up' = [up EXCEPT ![r].members = members,
                            ![r].pdf_files = PdfMembers(members)]
    /\ pc' = [pc EXCEPT ![r] = "zip_next"]
    /\ UNCHANGED <<req, uploads, outputs, sp, saves, response, before>>

\* zipfile.BadZipFile, caught by upload_pdf's except.
ZipOpenFail(r) ==
    /\ pc[r] = "zip_open"
    /\ ~IsZipFile(uploads, up[r].filename)
    /\ Respond(r, ErrorResponse(500, Msg_Processing))
    /\ UNCHANGED <<req, uploads, outputs, up, sp, saves, before>>

\* The extraction of the next PDF member to the upload folder.
ZipExtract(r) ==
    /\ pc[r] = "zip_next"
    /\ up[r].idx <= Len(up[r].pdf_files)
    /\ LET m    == up[r].pdf_files[up[r].idx]
           path == secure_filename(up[r].members[m].name)
       IN  /\ uploads' = Put(uploads, path, Stored(up[r].members[m].body, r, m))
           /\ up' = [up EXCEPT ![r].extracted_path = path]
           /\ sp' = [sp EXCEPT ![r] =
                        [SpInit EXCEPT !.input_pdf = path,
                                       !.gstin_filter = up[r].gstin_filter]]
    /\ pc' = [pc EXCEPT ![r] = "split_open"]
    /\ UNCHANGED <<req, outputs, saves, response, before>>

\* The end of the loop over the members: the success response.
ZipDone(r) ==
    /\ pc[r] = "zip_next"
    /\ up[r].idx > Len(up[r].pdf_files)
    /\ Respond(r, FilesResponse(up[r].split_files))
    /\ UNCHANGED <<req, uploads, outputs, up, sp, saves, before>>

\* split_files.extend(split_invoices(...)); os.remove(extracted_path)
CleanupKeep(r) == uploads

CleanupRemove(r) == Remove(uploads, up[r].extracted_path)

ZipMemberDone(r) ==
    /\ pc[r] = "returned"
    /\ up[r].zip
    /\ up[r].extracted_path \in DOMAIN uploads
    /\ uploads' = CleanupRemove(r)
    /\ up' = [up EXCEPT ![r].split_files = @ \o sp[r].split_files,
                        ![r].idx = @ + 1]
    /\ pc' = [pc EXCEPT ![r] = "zip_next"]
    /\ UNCHANGED <<req, outputs, sp, saves, response, before>>

\* os.remove raises FileNotFoundError: another request removed the file.
ZipRemoveFail(r) ==
    /\ pc[r] = "returned"
    /\ up[r].zip
    /\ up[r].extracted_path \notin DOMAIN uploads
    /\ Respond(r, ErrorResponse(500, Msg_Processing))
    /\ UNCHANGED <<req, uploads, outputs, up, sp, saves, before>>

\* split_files = split_invoices(file_path, gstin_filter), and the response.
PdfDone(r) ==
    /\ pc[r] = "returned"
    /\ ~up[r].zip
    /\ up' = [up EXCEPT ![r].split_files = sp[r].split_files]
    /\ Respond(r, FilesResponse(sp[r].split_files))
    /\ UNCHANGED <<req, uploads, outputs, sp, saves, before>>

\* except Exception: the generic server error.
ProcessingError(r) == ErrorResponse(500, Msg_Processing)

UploadError(r) ==
    /\ pc[r] = "raised"
    /\ Respond(r, ProcessingError(r))
    /\ UNCHANGED <<req, uploads, outputs, up, sp, saves, before>>

\* --------------------------------------------------------- split_invoices

IsPdfFile(folder, name) == name \in DOMAIN folder /\ folder[name].body.type = "pdf"

\* doc = fitz.open(input_pdf), and the locals before the loop.
SplitOpen(r) ==
    /\ pc[r] \in {"split_open"}
    /\ IsPdfFile(uploads, sp[r].input_pdf)
    /\ sp' = [sp EXCEPT ![r].doc = uploads[sp[r].input_pdf].body.pages,
                        ![r].origin = uploads[sp[r].input_pdf].origin,
                        ![r].doc_open = TRUE,
                        ![r].opened = TRUE]
    /\ saves' = [saves EXCEPT ![r] = <<>>]
    /\ pc' = [pc EXCEPT ![r] = "scan"]
    /\ UNCHANGED <<req, uploads, outputs, up, response, before>>

\* fitz.open raises (no such file, or not a PDF), before the try block.
SplitOpenFail(r) ==
    /\ pc[r] = "split_open"
    /\ ~IsPdfFile(uploads, sp[r].input_pdf)
    /\ saves' = [saves EXCEPT ![r] = <<>>]
    /\ pc' = [pc EXCEPT ![r] = "raised"]
    /\ UNCHANGED <<req, uploads, outputs, up, sp, response, before>>

\* new_pdf.save(output_path) replaces whatever file has that name.
SaveOutputKeepExisting(folder, name, content) ==
    IF name \in DOMAIN folder THEN folder ELSE Put(folder, name, content)

SaveOutputMerging(folder, name, content) ==
    IF name \in DOMAIN folder
    THEN Put(folder, name,
             [ok |-> content.ok, pages |-> folder[name].pages \o content.pages])
    ELSE Put(folder, name, content)

SaveOutput(folder, name, content) == Put(folder, name, content)

\* split_files.append(filename)
AppendName(files, name) == Append(files, name)

\* invoice_pages.append(page_num)
ExtendInvoiceDropping(pages, page_num) == pages

ExtendInvoice(pages, page_num) == Append(pages, page_num)

\* The open invoice is written: it exists and passes the filter.
SaveDue(r) ==
    /\ sp[r].invoice_pages # <<>>
    /\ FilterPasses(sp[r].gstin_filter, sp[r].invoice_data[2])

SaveRecord(r) ==
    [name |-> OutputName(sp[r].invoice_data), pages |-> sp[r].invoice_pages,
     data |-> sp[r].invoice_data,
     content |-> Written(sp[r].origin, sp[r].invoice_pages)]

\* Lines 101-112 and 122-133: the open invoice is saved under its sanitised
\* name and the name recorded, when it passes the filter.
Finalize(r) ==
    IF SaveDue(r)
    THEN /\ outputs' = SaveOutput(outputs, OutputName(sp[r].invoice_data),
                                  Written(sp[r].origin, sp[r].invoice_pages))
         /\ saves' = [saves EXCEPT ![r] = Append(@, SaveRecord(r))]
    ELSE UNCHANGED <<outputs, saves>>

FilesAfterFinalize(r) ==
    IF SaveDue(r)
    THEN AppendName(sp[r].split_files, OutputName(sp[r].invoice_data))
    ELSE sp[r].split_files

AtPage(r) == pc[r] = "scan" /\ sp[r].page_num < Len(sp[r].doc)
AtEnd(r) == pc[r] = "scan" /\ sp[r].page_num = Len(sp[r].doc)
CurrentText(r) == sp[r].doc[sp[r].page_num + 1]

\* One iteration of the loop over the pages.
ScanPage(r) ==
    /\ AtPage(r)
    /\ IF IsMarker(CurrentText(r))
       THEN /\ Finalize(r)
            /\ sp' = [sp EXCEPT ![r].split_files = FilesAfterFinalize(r),
                                ![r].invoice_pages = <<sp[r].page_num>>,
                                ![r].invoice_data =
                                    <<CurrentText(r).id, CurrentText(r).gst>>,
                                ![r].page_num = @ + 1]
       ELSE /\ sp' = [sp EXCEPT ![r].invoice_pages =
                                    IF @ # <<>>
                                    THEN ExtendInvoice(@, sp[r].page_num)
                                    ELSE @,
                                ![r].page_num = @ + 1]
            /\ UNCHANGED <<outputs, saves>>
    /\ UNCHANGED <<req, pc, uploads, up, response, before>>

\* doc[page_num] or page.get_text raises.
ReadFail(r) ==
    /\ AtPage(r)
    /\ sp' = [sp EXCEPT ![r].exc = TRUE]
    /\ pc' = [pc EXCEPT ![r] = "finally"]
    /\ UNCHANGED <<req, uploads, outputs, up, saves, response, before>>

\* insert_pdf or new_pdf.save raises; the save may leave an incomplete file.
SaveFail(r) ==
    /\ \/ AtPage(r) /\ IsMarker(CurrentText(r))
       \/ AtEnd(r)
    /\ SaveDue(r)
    /\ \E partial \in BOOLEAN :
          outputs' = IF partial
                     THEN Put(outputs, OutputName(sp[r].invoice_data), Truncated)
                     ELSE outputs
    /\ sp' = [sp EXCEPT ![r].exc = TRUE]
    /\ pc' = [pc EXCEPT ![r] = "finally"]
    /\ UNCHANGED <<req, uploads, up, saves, response, before>>

\* if invoice_pages: (after the loop) the last invoice.
LastInvoice(r) ==
    /\ AtEnd(r)
    /\ Finalize(r)
    /\ sp' = [sp EXCEPT ![r].split_files = FilesAfterFinalize(r)]
    /\ pc' = [pc EXCEPT ![r] = "finally"]
    /\ UNCHANGED <<req, uploads, up, response, before>>

\* finally: doc.close(); then the return, or the exception raised again.
DocOpenAfterLeak(r) == sp[r].exc

DocOpenAfter(r) == FALSE

PcAfter(r) == IF sp[r].exc THEN "raised" ELSE "returned"

Finally(r) ==
    /\ pc[r] = "finally"
    /\ sp' = [sp EXCEPT ![r].doc_open = DocOpenAfter(r)]
    /\ pc' = [pc EXCEPT ![r] = PcAfter(r)]
    /\ UNCHANGED <<req, uploads, outputs, up, saves, response, before>>

\* ---------------------------------------------------------- download_file

Download(r) ==
    /\ pc[r] = "download"
    /\ before' = [before EXCEPT ![r] = outputs]
    /\ Respond(r, IF req[r].filename \in DOMAIN outputs
                  THEN FileResponse(outputs[req[r].filename])
                  ELSE ErrorResponse(404, Msg_NotFound))
    /\ UNCHANGED <<req, uploads, outputs, up, sp, saves>>

\* ----------------------------------------------------------- specification

\* A request that is served alone: os.remove then always finds the file it
\* extracted, so ZipRemoveFail is no step of it.
Next ==
    \/ \E r \in Requests : UploadNoFilePart(r)
    \/ \E r \in Requests : UploadNoSelectedFile(r)
    \/ \E r \in Requests : UploadInvalidType(r)
    \/ \E r \in Requests : UploadSave(r)
    \/ \E r \in Requests : ZipOpen(r)
    \/ \E r \in Requests : ZipOpenFail(r)
    \/ \E r \in Requests : ZipExtract(r)
    \/ \E r \in Requests : ZipDone(r)
    \/ \E r \in Requests : ZipMemberDone(r)
    \/ \E r \in Requests : PdfDone(r)
    \/ \E r \in Requests : UploadError(r)
    \/ \E r \in Requests : SplitOpen(r)
    \/ \E r \in Requests : SplitOpenFail(r)
    \/ \E r \in Requests : ScanPage(r)
    \/ \E r \in Requests : ReadFail(r)
    \/ \E r \in Requests : SaveFail(r)
    \/ \E r \in Requests : LastInvoice(r)
    \/ \E r \in Requests : Finally(r)
    \/ \E r \in Requests : Download(r)

NextConc ==
    \/ Next
    \/ \E r \in Requests : ZipRemoveFail(r)

Spec == Init /\ [][Next]_vars

SpecConc == InitConc /\ [][NextConc]_vars

\* ------------------------------------------------- what the claims speak of

\* A marker page: a page whose text matches both patterns.
MatchesBoth(text) == Len(text.id) > 0 /\ Len(text.gst) > 0

\* The (0-based) marker pages of a document.
MarkerPages(doc) == {p \in 0..(Len(doc) - 1) : MatchesBoth(doc[p + 1])}

\* The k-th marker page, k in 1..N.
KthMarker(doc, k) ==
    CHOOSE p \in MarkerPages(doc) :
        Cardinality({q \in MarkerPages(doc) : q < p}) = k - 1

\* The pages of the k-th invoice: its marker page and the pages after it up
\* to the next marker page or the end of the document.
Segment(doc, k) ==
    LET first == KthMarker(doc, k)
        stop  == IF k < Cardinality(MarkerPages(doc))
                 THEN KthMarker(doc, k + 1)
                 ELSE Len(doc)
    IN  [i \in 1..(stop - first) |-> first + i - 1]

\* Copies of the given pages of the document the call reads.
CopiesOf(r, pages) ==
    [i \in 1..Len(pages) |-> [src |-> sp[r].origin, page |-> pages[i]]]

\* Equal but for the case of the letters.
EqIgnoreCase(a, b) ==
    /\ Len(a) = Len(b)
    /\ \A i \in 1..Len(a) :
          a[i] = b[i] \/ <<a[i], b[i]>> \in CaseTable \/ <<b[i], a[i]>> \in CaseTable

\* The call of split_invoices of request r has returned its list.
Returned(r) == pc[r] = "returned"

Range(f) == {f[i] : i \in DOMAIN f}

RECURSIVE Concat(_)
Concat(ss) == IF ss = <<>> THEN <<>> ELSE Head(ss) \o Concat(Tail(ss))

\* ---------------------------------------------------------------------- C1

\* C1: without a filter, a call that returns has written one invoice per
\* marker page, the k-th holding the k-th marker page and the pages up to the
\* next marker page (or the end), and returns as many names; when every
\* page is a marker page each output has one page.
C1_OnePerMarker ==
    \A r \in Requests :
        (Returned(r) /\ sp[r].gstin_filter = <<>>) =>
            LET doc == sp[r].doc
                N   == Cardinality(MarkerPages(doc))
            IN  /\ Len(sp[r].split_files) = N
                /\ Len(saves[r]) = N
                /\ \A k \in 1..N :
                      /\ saves[r][k].content.ok
                      /\ saves[r][k].content.pages = CopiesOf(r, Segment(doc, k))
                      /\ saves[r][k].name = sp[r].split_files[k]
                /\ (N = Len(doc)) =>
                      \A k \in 1..N :
                          saves[r][k].content.pages = CopiesOf(r, <<k - 1>>)

\* Two marker pages, the first followed by a page that is none.
C1_Witness ==
    \E r \in Requests :
        /\ Returned(r)
        /\ sp[r].gstin_filter = <<>>
        /\ Len(sp[r].doc) = 3
        /\ MarkerPages(sp[r].doc) = {0, 2}
        /\ Len(saves[r]) = 2
        /\ saves[r][1].pages = <<0, 1>>

\* ---------------------------------------------------------------------- C2

\* The names of a list, each once, in the order of their first occurrence.
Distinct(files) ==
    LET idxs == [i \in 1..Len(files) |-> i]
        isFirst(i) == \A j \in 1..(i - 1) : files[j] # files[i]
        firsts == SelectSeq(idxs, isFirst)
    IN  [k \in 1..Len(firsts) |-> files[firsts[k]]]

\* The pages from the first marker page to the end of the document.
FromFirstMarker(doc) ==
    IF MarkerPages(doc) = {} THEN <<>>
    ELSE LET first == KthMarker(doc, 1)
         IN  [i \in 1..(Len(doc) - first) |-> first + i - 1]

\* The pages of the output files a call reports, file after file.
OutputPages(r) ==
    LET names == Distinct(sp[r].split_files)
    IN  Concat([k \in 1..Len(names) |-> outputs[names[k]].pages])

\* C2: after a call without a filter, the pages of the output files, in the
\* order in which the invoices were opened, are the pages of the document
\* from its first marker page to its last page.
C2_RoundTrip ==
    \A r \in Requests :
        (Returned(r) /\ sp[r].gstin_filter = <<>>) =>
            OutputPages(r) = CopiesOf(r, FromFirstMarker(sp[r].doc))

\* C2, for the documents whose invoices all get different file names: there
\* the round trip holds.
C2_RoundTripDistinctNames ==
    \A r \in Requests :
        (/\ Returned(r)
         /\ sp[r].gstin_filter = <<>>
         /\ Len(Distinct(sp[r].split_files)) = Len(sp[r].split_files)) =>
            OutputPages(r) = CopiesOf(r, FromFirstMarker(sp[r].doc))

\* ---------------------------------------------------------------------- C3

\* The invoices of the document whose GSTIN is the filter but for the case
\* of the letters (all of them without a filter), in page order.
Passing(r) ==
    LET doc == sp[r].doc
        ks  == [k \in 1..Cardinality(MarkerPages(doc)) |-> k]
        passes(k) ==
            \/ Len(sp[r].gstin_filter) = 0
            \/ EqIgnoreCase(sp[r].gstin_filter, doc[KthMarker(doc, k) + 1].gst)
    IN  SelectSeq(ks, passes)

\* C3: a call that returns has written, and recorded the names of, exactly
\* the invoices whose GSTIN equals the filter ignoring case; the others are
\* not written and their pages are in no output; when no invoice matches,
\* the list is empty and the output folder is as the request found it; a
\* filter that is empty or blank is no filter.
C3_FilterIff ==
    \A r \in Requests :
        Returned(r) =>
            LET doc == sp[r].doc
                ks  == Passing(r)
            IN  /\ Len(saves[r]) = Len(ks)
                /\ Len(sp[r].split_files) = Len(ks)
                /\ \A i \in 1..Len(ks) :
                      /\ saves[r][i].content.pages = CopiesOf(r, Segment(doc, ks[i]))
                      /\ saves[r][i].name = sp[r].split_files[i]
                /\ (ks = <<>> /\ ~up[r].zip) =>
                      /\ sp[r].split_files = <<>>
                      /\ outputs = before[r]
                /\ (\A i \in 1..Len(req[r].gstin) : req[r].gstin[i] = " ") =>
                      Len(saves[r]) = Cardinality(MarkerPages(doc))

\* A filter in another letter case than the GSTIN it matches, on a document
\* with a matching and a non-matching invoice.
C3_Witness ==
    \E r \in Requests :
        /\ Returned(r)
        /\ sp[r].gstin_filter = <<"G">>
        /\ Cardinality(MarkerPages(sp[r].doc)) = 3
        /\ Len(saves[r]) = 1
        /\ saves[r][1].data[2] = <<"g">>
        /\ saves[r][1].pages = <<1>>

\* ---------------------------------------------------------------------- C4

\* The marker pages the scan has passed.
SeenMarkers(r) == {p \in MarkerPages(sp[r].doc) : p < sp[r].page_num}

Latest(ps) == CHOOSE p \in ps : \A q \in ps : q <= p
Earliest(ps) == CHOOSE p \in ps : \A q \in ps : p <= q

\* C4: at every point of the scan the invoice in progress is empty until a
\* page matching both patterns has been passed, and is then the latest such
\* page followed by all the pages after it; every written invoice starts at
\* a marker page and ends before one (or at the end), so no page before the
\* first marker page is in an output and without marker pages nothing is
\* written.
C4_OnlyMarkersOpen ==
    \A r \in Requests :
        sp[r].opened =>
            LET doc  == sp[r].doc
                inv  == sp[r].invoice_pages
                seen == SeenMarkers(r)
            IN  /\ (inv # <<>>) => (seen # {} /\ MatchesBoth(doc[inv[1] + 1]))
                /\ (seen = {}) =>
                      (inv = <<>> /\ saves[r] = <<>> /\ sp[r].split_files = <<>>)
                /\ (seen # {}) =>
                      inv = [i \in 1..(sp[r].page_num - Latest(seen)) |->
                                Latest(seen) + i - 1]
                /\ \A k \in 1..Len(saves[r]) :
                      LET ps == saves[r][k].pages
                      IN  /\ MatchesBoth(doc[ps[1] + 1])
                          /\ \A i \in 1..Len(ps) : ps[i] >= Earliest(MarkerPages(doc))
                          /\ \A i \in 2..Len(ps) : ~MatchesBoth(doc[ps[i] + 1])
                          /\ \/ ps[Len(ps)] + 1 = Len(doc)
                             \/ MatchesBoth(doc[ps[Len(ps)] + 2])

\* A page with the document id only, a marker page, a page with the GSTIN
\* only: the first is dropped, the third appended.
C4_Witness ==
    \E r \in Requests :
        /\ pc[r] = "scan"
        /\ sp[r].page_num = 3
        /\ sp[r].doc[1].id # <<>> /\ sp[r].doc[1].gst = <<>>
        /\ MatchesBoth(sp[r].doc[2])
        /\ sp[r].doc[3].id = <<>> /\ sp[r].doc[3].gst # <<>>
        /\ sp[r].invoice_pages = <<1, 2>>
        /\ saves[r] = <<>>

\* ---------------------------------------------------------------------- C5

\* C5: the source document is open only while its call of split_invoices
\* runs, so it is closed when the call ends, by a return or by an exception;
\* a call in which a page read or a save failed never returns a list, and
\* its request ends with the generic server error.
C5_ClosedAndPropagated ==
    \A r \in Requests :
        /\ sp[r].doc_open => pc[r] \in {"scan", "finally"}
        /\ (sp[r].opened /\ pc[r] \in {"returned", "raised", "done"}) =>
              ~sp[r].doc_open
        /\ Returned(r) => ~sp[r].exc
        /\ sp[r].exc => pc[r] \in {"finally", "raised", "done"}
        /\ (sp[r].exc /\ pc[r] = "done") =>
              /\ response[r].status = 500
              /\ response[r].error = Msg_Processing
              /\ response[r].files = <<>>

\* A call that failed after it had written an invoice.
C5_Witness ==
    \E r \in Requests :
        /\ pc[r] = "done"
        /\ sp[r].opened
        /\ sp[r].exc
        /\ ~sp[r].doc_open
        /\ Len(sp[r].split_files) >= 1
        /\ response[r].status = 500

\* ---------------------------------------------------------------------- C6

\* C6: when a request has failed, every output file that was there when the
\* request began is still there with the content it had.
C6_FailureKeepsEarlierOutputs ==
    \A r \in Requests :
        (pc[r] = "done" /\ response[r].status >= 400) =>
            \A f \in DOMAIN before[r] :
                f \in DOMAIN outputs /\ outputs[f] = before[r][f]

\* ---------------------------------------------------------------------- C7

\* The text after the last dot is pdf or zip, in any letter case.
ExtAllowed(filename) ==
    \E i \in 1..Len(filename) :
        /\ filename[i] = "."
        /\ \A j \in (i + 1)..Len(filename) : filename[j] # "."
        /\ \E e \in {Str_pdf, Str_zip} :
              EqIgnoreCase(SubSeq(filename, i + 1, Len(filename)), e)

InvalidUpload(in) == ~in.hasFile \/ in.filename = <<>> \/ ~ExtAllowed(in.filename)

\* C7: an upload without a file part, with an empty file name or with an
\* extension other than pdf or zip is answered 400 with a message, nothing
\* is saved, split_invoices does not run and nothing is written; an upload
\* with an allowed extension in any letter case is saved.
C7_Validation ==
    \A r \in Requests :
        (req[r].kind = "upload" /\ pc[r] # "upload") =>
            IF InvalidUpload(req[r])
            THEN /\ pc[r] = "done"
                 /\ response[r].status = 400
                 /\ response[r].error =
                        IF ~req[r].hasFile THEN Msg_NoFilePart
                        ELSE IF req[r].filename = <<>> THEN Msg_NoSelectedFile
                        ELSE Msg_InvalidType
                 /\ uploads = EmptyFolder
                 /\ ~sp[r].opened
                 /\ saves[r] = <<>>
                 /\ outputs = before[r]
            ELSE /\ response[r].status # 400
                 /\ \E n \in DOMAIN uploads :
                        uploads[n] = [body |-> req[r].body, origin |-> <<r, 0>>]

\* A name that holds ".pdf" but ends in another extension is refused.
C7_Witness ==
    \E r \in Requests :
        /\ pc[r] = "done"
        /\ req[r].filename = Name_pdf_txt
        /\ response[r].status = 400
        /\ uploads = EmptyFolder

\* ---------------------------------------------------------------------- C8

\* C8: while a ZIP upload is served the upload folder holds the archive and
\* at most the one member being split; between two members and after the
\* success response it holds the archive alone; when the split of a member
\* fails, its extracted file stays, no further member is extracted and the
\* response is the server error.
C8_ZipCleanup ==
    \A r \in Requests :
        up[r].zip =>
            /\ pc[r] = "zip_next" => DOMAIN uploads = {up[r].filename}
            /\ pc[r] \in {"split_open", "scan", "finally", "returned", "raised"} =>
                  DOMAIN uploads = {up[r].filename, up[r].extracted_path}
            /\ (pc[r] = "done" /\ response[r].status = 200) =>
                  /\ DOMAIN uploads = {up[r].filename}
                  /\ up[r].idx = Len(up[r].pdf_files) + 1
            /\ (pc[r] = "done" /\ response[r].status # 200
                    /\ up[r].extracted_path # <<>>) =>
                  /\ DOMAIN uploads = {up[r].filename, up[r].extracted_path}
                  /\ up[r].idx <= Len(up[r].pdf_files)
                  /\ uploads[up[r].extracted_path].origin =
                         <<r, up[r].pdf_files[up[r].idx]>>
                  /\ response[r].status = 500

\* Three PDF members: the first split and deleted, the second fails and
\* stays, the third is never extracted.
C8_Witness ==
    \E r \in Requests :
        /\ up[r].zip
        /\ pc[r] = "done"
        /\ response[r].status = 500
        /\ Len(up[r].pdf_files) = 3
        /\ up[r].idx = 2
        /\ Len(up[r].split_files) >= 1
        /\ Cardinality(DOMAIN uploads) = 2

\* ---------------------------------------------------------------------- C9

SavedAs(r, f) == {saves[r][k].content : k \in {j \in 1..Len(saves[r]) : saves[r][j].name = f}}

BothReport(r1, r2, f) ==
    /\ r1 # r2
    /\ pc[r1] = "done" /\ pc[r2] = "done"
    /\ ~up[r1].zip /\ ~up[r2].zip
    /\ response[r1].status = 200 /\ response[r2].status = 200
    /\ f \in Range(response[r1].files) \cap Range(response[r2].files)

\* C9: when two PDF uploads both report an output name, the file of that
\* name is what one save of one of the two requests wrote, whole and alone:
\* no lock and no naming keeps the other request's invoice.
C9_LastWriterWins ==
    \A r1, r2 \in Requests :
        \A f \in Range(response[r1].files) :
            BothReport(r1, r2, f) =>
                /\ f \in DOMAIN outputs
                /\ outputs[f] \in SavedAs(r1, f) \cup SavedAs(r2, f)

\* Both requests report the name; the file holds the pages request 2 read
\* and none of those request 1 wrote.
C9_Witness ==
    \E f \in DOMAIN outputs :
        /\ BothReport(1, 2, f)
        /\ sp[1].origin # sp[2].origin
        /\ outputs[f] \in SavedAs(2, f)
        /\ outputs[f] \notin SavedAs(1, f)
        /\ \A g \in DOMAIN outputs : outputs[g] \notin SavedAs(1, f)

\* --------------------------------------------------------------------- C10

LastSaved(r, f) ==
    saves[r][Latest({k \in 1..Len(saves[r]) : saves[r][k].name = f})]

\* C10: the list a call returns has one entry per written invoice, in page
\* order, the same name as often as invoices have it; each named file holds
\* the pages of the last invoice of that name; so the files are at most as
\* many as the entries.
C10_ListAndLastContent ==
    \A r \in Requests :
        Returned(r) =>
            LET files == sp[r].split_files
                ks    == Passing(r)
            IN  /\ Len(files) = Len(ks)
                /\ \A i \in 1..Len(ks) :
                      /\ files[i] = saves[r][i].name
                      /\ saves[r][i].pages = Segment(sp[r].doc, ks[i])
                      /\ saves[r][i].data =
                            << sp[r].doc[KthMarker(sp[r].doc, ks[i]) + 1].id,
                               sp[r].doc[KthMarker(sp[r].doc, ks[i]) + 1].gst >>
                /\ \A f \in Range(files) :
                      /\ f \in DOMAIN outputs
                      /\ outputs[f] = LastSaved(r, f).content
                /\ Cardinality(Range(files)) <= Len(files)
                /\ ~up[r].zip =>
                      Cardinality({f \in DOMAIN outputs :
                                      f \notin DOMAIN before[r]
                                      \/ outputs[f] # before[r][f]}) <= Len(files)

\* Three entries, two of them the same name: two files, the shared one
\* holding the later invoice.
C10_Witness ==
    \E r \in Requests :
        /\ Returned(r)
        /\ Len(sp[r].split_files) = 3
        /\ sp[r].split_files[1] = sp[r].split_files[3]
        /\ sp[r].split_files[1] # sp[r].split_files[2]
        /\ saves[r][1].data # saves[r][3].data
        /\ outputs[sp[r].split_files[1]] = saves[r][3].content
        /\ Cardinality(Range(sp[r].split_files)) = 2

====
